---- MODULE Spec2Model ----
(***************************************************************************)
(* A model of the weather gateway: the TTL cache (_TTLCache), the upstream *)
(* client (WeatherstackClient.get_current) and the request handler         *)
(* (get_weather) of app/main.py.                                           *)
(*                                                                         *)
(* Objects live in a heap: recs holds the WeatherResponse instances and    *)
(* lists the Python list objects their weather_descriptions fields point   *)
(* to.  A reference is an index into the heap, None is 0.                  *)
(***************************************************************************)
EXTENDS Integers, Sequences, FiniteSets, TLC

VARIABLES
    data,           \* _TTLCache._data, as a set of entries [key, expires_at, seq, value]
    counter,        \* _TTLCache._counter
    max_size,       \* _TTLCache._max_size
    ttl_seconds,    \* _TTLCache._ttl_seconds
    cache_enabled,  \* Settings.cache_enabled
    now,            \* the clock read by time.time()
    recs,           \* heap of WeatherResponse instances
    lists,          \* heap of list objects
    lock,           \* _TTLCache._lock: the request holding it, 0 when free
    city,           \* per request: the `city` query parameter
    value,          \* per request: the `value` argument of the set it is in
    pc,             \* per request: its position in get_weather
    normalized,     \* per request: the local `normalized`
    cached,         \* per request: the local `cached`
    response,       \* per request: the record handed back to the caller
    status,         \* per request: the HTTP status it ended with
    last,           \* the operation performed last, with its inputs and result
    writes          \* the keys written by set so far, in order

vars == <<data, counter, max_size, ttl_seconds, cache_enabled, now, recs, lists,
          lock, city, value, pc, normalized, cached, response, status, last, writes>>

-----------------------------------------------------------------------------
(* Bounds of the model. *)

MaxSets == 4

MaxTime == 1

MaxTTL == 1

MaxMaxSize == 3

NumProcs == 2

-----------------------------------------------------------------------------
(* Values. *)

None == 0

\* main.py:20  _MAX_CACHE_SIZE
MAX_CACHE_SIZE == 1000

NoKey == <<>>

Procs == 1..NumProcs

CacheKeys == {<<"a">>, <<"b">>, <<"c">>}

-----------------------------------------------------------------------------
(* _TTLCache *)

\* mutant of Expired: the boundary instant counts as still valid
ExpiredStrict(e, t) == e.expires_at < t

\* main.py:44  `expires_at <= now`
Expired(e, t) == e.expires_at <= t

\* main.py:39  self._data.get(key)
Item(d, k) == {e \in d : e.key = k}

\* main.py:36-48  the value get returns
GetResult(d, k, t) ==
    IF Item(d, k) = {} THEN None
    ELSE LET e == CHOOSE x \in Item(d, k) : TRUE
         IN  IF Expired(e, t) THEN None ELSE e.value

\* mutant of GetData: a read removes the entry it looked up
GetDataPop(d, k, t) == {e \in d : e.key # k}

\* main.py:36-48  the store get leaves behind
GetData(d, k, t) ==
    IF Item(d, k) = {} THEN d
    ELSE LET e == CHOOSE x \in Item(d, k) : TRUE
         IN  IF Expired(e, t) THEN {x \in d : x.key # k} ELSE d

\* main.py:55-57  remove expired entries
Sweep(d, t) == {e \in d : e.expires_at > t}

\* mutant of AtCapacity: off by one
AtCapacityOffByOne(d, m) == Cardinality(d) > m

\* main.py:60  len(self._data) >= self._max_size
AtCapacity(d, m) == Cardinality(d) >= m

\* mutant of Oldest: the most recent write is picked
Newest(d) == CHOOSE e \in d : \A f \in d : e.seq >= f.seq

\* main.py:61  min(self._data, key=lambda k: self._data[k][1])
Oldest(d) == CHOOSE e \in d : \A f \in d : e.seq <= f.seq

\* main.py:60-62  FIFO eviction
Evict(d, m) ==
    IF AtCapacity(d, m) THEN {e \in d : e.key # Oldest(d).key} ELSE d

\* mutant of Store: the entry is added beside the one the key already has
StoreBeside(d, k, entry) == d \cup {entry}

\* mutant of Store: an overwritten key keeps its old sequence number
StoreKeepSeq(d, k, entry) ==
    {e \in d : e.key # k}
        \cup {[entry EXCEPT !.seq = IF \E e \in d : e.key = k
                                     THEN (CHOOSE e \in d : e.key = k).seq
                                     ELSE @]}

\* main.py:65  self._data[key] = (...)
Store(d, k, entry) == {e \in d : e.key # k} \cup {entry}

\* main.py:64-65  the entry set writes
NewEntry(k, v, c, ttl, t) ==
    [key |-> k, expires_at |-> t + ttl, seq |-> c + 1, value |-> v]

\* main.py:50-65  the store set leaves behind
SetData(d, c, m, ttl, t, k, v) ==
    Store(Evict(Sweep(d, t), m), k, NewEntry(k, v, c, ttl, t))

-----------------------------------------------------------------------------
(* Heap. *)

\* schemas.py:8-21  a WeatherResponse instance
Record(temp, wind, descs) ==
    [temperature_c |-> temp, wind_speed |-> wind, weather_descriptions |-> descs]

\* the observable content of a record: its fields, the list by value
Content(rs, ls, r) ==
    [temperature_c |-> rs[r].temperature_c,
     wind_speed |-> rs[r].wind_speed,
     weather_descriptions |-> ls[rs[r].weather_descriptions]]

-----------------------------------------------------------------------------
(* City normalisation: main.py:176-180.  A string is a sequence of          *)
(* one-character strings.                                                   *)

Whitespace == {" ", "\t"}

\* str.split() with no separator: the maximal runs of non-whitespace
RECURSIVE SplitFrom(_, _, _, _)
SplitFrom(s, i, cur, acc) ==
    IF i > Len(s)
    THEN IF cur = <<>> THEN acc ELSE Append(acc, cur)
    ELSE IF s[i] \in Whitespace
         THEN SplitFrom(s, i + 1, <<>>, IF cur = <<>> THEN acc ELSE Append(acc, cur))
         ELSE SplitFrom(s, i + 1, Append(cur, s[i]), acc)

Split(s) == SplitFrom(s, 1, <<>>, <<>>)

\* " ".join(words)
RECURSIVE Join(_)
Join(ws) ==
    IF ws = <<>> THEN <<>>
    ELSE IF Len(ws) = 1 THEN ws[1]
         ELSE ws[1] \o <<" ">> \o Join(Tail(ws))

\* mutant of NormalizeCity: the city is taken as given
NormalizeNothing(c) == c

\* main.py:176  " ".join(city.split())
NormalizeCity(c) == Join(Split(c))

FoldChar(c) ==
    CASE c = "P" -> "p"
      [] c = "N" -> "n"
      [] c = "Y" -> "y"
      [] OTHER -> c

\* main.py:180  normalized.casefold()
Casefold(s) == [i \in 1..Len(s) |-> FoldChar(s[i])]

\* the `city` query parameter: 1 to 100 characters (main.py:171)
CityInputs ==
    { <<"P">>, <<" ", "p">>, <<"N", "\t", " ", "y">>, <<" ">> }

-----------------------------------------------------------------------------
(* What the upstream call can produce.  An Optional value is a sequence of  *)
(* length 0 (None) or 1.                                                    *)

Codes == {<<>>, <<101>>, <<104>>, <<429>>, <<403>>, <<601>>, <<615>>}

Types == {<<>>, <<"unauthorized">>, <<"usage_limit_reached">>, <<"too_many_requests">>,
          <<"forbidden">>, <<"missing_query">>, <<"request_failed">>}

Temperatures ==
    { [kind |-> "absent", val |-> 0],        \* no "temperature" key, or null
      [kind |-> "int", val |-> 22],          \* 22
      [kind |-> "int_string", val |-> 7],    \* "7"
      [kind |-> "bad_string", val |-> 0],    \* "abc"
      [kind |-> "infinite", val |-> 0] }     \* 1e999, parsed to float inf

\* a well-formed success response
GoodOutcome ==
    [transport |-> "response", body |-> "object", success |-> "absent",
     has_error |-> FALSE, code |-> <<>>, type |-> <<>>,
     location |-> TRUE, current |-> "object",
     temperature |-> [kind |-> "int", val |-> 22],
     wind_speed |-> [kind |-> "int", val |-> 22], descs |-> <<"Sunny">>]

UpstreamOutcomes ==
    {[GoodOutcome EXCEPT !.transport = t] :
        t \in {"timeout", "network_error", "http_status_error"}}
    \cup {[GoodOutcome EXCEPT !.body = b] : b \in {"not_json", "not_object"}}
    \cup {[GoodOutcome EXCEPT !.success = "false", !.has_error = TRUE,
                              !.code = c, !.type = ty,
                              !.location = FALSE, !.current = "absent"] :
            c \in Codes, ty \in Types}
    \cup {[GoodOutcome EXCEPT !.success = sc, !.has_error = e] :
            sc \in {"absent", "true", "false"}, e \in BOOLEAN}
    \cup {[GoodOutcome EXCEPT !.location = l, !.current = c] :
            l \in BOOLEAN, c \in {"absent", "object", "not_object"}}
    \cup {[GoodOutcome EXCEPT !.temperature = t, !.descs = d] :
            t \in Temperatures, d \in {<<>>, <<"Sunny">>}}
    \cup {[GoodOutcome EXCEPT !.temperature = t, !.wind_speed = w] :
            t \in Temperatures, w \in Temperatures}

\* the outcomes tried when several requests run together: two successes with
\* different content, a timeout, and a payload without temperature
SharedOutcomes ==
    { GoodOutcome,
      [GoodOutcome EXCEPT !.temperature = [kind |-> "int_string", val |-> 7],
                          !.descs = <<>>],
      [GoodOutcome EXCEPT !.transport = "timeout"],
      [GoodOutcome EXCEPT !.temperature = [kind |-> "absent", val |-> 0]] }

-----------------------------------------------------------------------------
(* WeatherstackClient.get_current: weatherstack_client.py:28-48 *)

Raised(kind, code, type) == [kind |-> kind, code |-> code, type |-> type]

GetCurrent(o) ==
    IF o.transport = "timeout" THEN Raised("TimeoutException", <<>>, <<>>)           \* :32
    ELSE IF o.transport = "network_error" THEN Raised("RequestError", <<>>, <<>>)    \* :32
    ELSE IF o.transport = "http_status_error"
         THEN Raised("HTTPStatusError", <<>>, <<>>)                                   \* :33
    ELSE IF o.body = "not_json" THEN Raised("JSONDecodeError", <<>>, <<>>)           \* :35
    ELSE IF o.body = "not_object" THEN Raised("AttributeError", <<>>, <<>>)          \* :37
    ELSE IF o.success = "false" /\ o.has_error
         THEN Raised("WeatherstackError", o.code, o.type)                             \* :37-43
    ELSE IF ~o.location \/ o.current = "absent"
         THEN Raised("WeatherstackError", <<>>, <<>>)                                 \* :45-46
    ELSE Raised("payload", <<>>, <<>>)                                                \* :48

-----------------------------------------------------------------------------
(* _safe_int and _map_weatherstack_payload: main.py:81-108 *)

\* int(value): the integer, or the exception it raises
SafeInt(t) ==
    CASE t.kind = "int" -> [raised |-> "none", val |-> <<t.val>>]
      [] t.kind = "int_string" -> [raised |-> "none", val |-> <<t.val>>]
      [] t.kind = "absent" -> [raised |-> "none", val |-> <<>>]        \* TypeError, caught
      [] t.kind = "bad_string" -> [raised |-> "none", val |-> <<>>]    \* ValueError, caught
      [] OTHER -> [raised |-> "OverflowError", val |-> <<>>]           \* not caught

\* the optional numeric fields (wind_speed, humidity, feelslike_c, uv_index,
\* visibility_km) all go through _safe_int alike; wind_speed stands for them
MapPayload(o) ==
    LET failed(e) == [raised |-> e, temperature_c |-> 0, wind_speed |-> <<>>,
                      descs |-> <<>>]
    IN  IF o.current = "not_object" THEN failed("AttributeError")                    \* :92
        ELSE LET t == SafeInt(o.temperature)
                 w == SafeInt(o.wind_speed)
             IN  IF t.raised # "none" THEN failed(t.raised)                           \* :92
                 ELSE IF t.val = <<>> THEN failed("ValueError")                       \* :93-94
                 ELSE IF w.raised # "none" THEN failed(w.raised)                      \* :102
                 ELSE [raised |-> "none", temperature_c |-> t.val[1],
                       wind_speed |-> w.val, descs |-> o.descs]                       \* :96-108

\* main.py:220  response.model_copy(): a new instance with the same field
\* values, so the same list object
ModelCopy(rs, r) == rs[r]

-----------------------------------------------------------------------------
(* get_weather's error translation: main.py:111-127 and 189-216 *)

\* mutant of HttpExceptionFromWeatherstackError: `and` in place of `or`
HttpExceptionByPair(code, type) ==
    IF code = <<101>> /\ type = <<"unauthorized">> THEN 401
    ELSE IF code = <<104>> /\ type = <<"usage_limit_reached">> THEN 429
    ELSE IF code = <<429>> /\ type = <<"too_many_requests">> THEN 429
    ELSE IF code = <<403>> /\ type = <<"forbidden">> THEN 403
    ELSE IF code = <<601>> /\ type = <<"missing_query">> THEN 400
    ELSE 502

HttpExceptionFromWeatherstackError(code, type) ==
    IF code = <<101>> \/ type = <<"unauthorized">> THEN 401
    ELSE IF code = <<104>> \/ type = <<"usage_limit_reached">> THEN 429
    ELSE IF code = <<429>> \/ type = <<"too_many_requests">> THEN 429
    ELSE IF code = <<403>> \/ type = <<"forbidden">> THEN 403
    ELSE IF code = <<601>> \/ type = <<"missing_query">> THEN 400
    ELSE 502

\* isinstance(exception, class): httpx.TimeoutException is an
\* httpx.RequestError; httpx.HTTPStatusError is not
IsInstance(kind, class) ==
    \/ kind = class
    \/ kind = "TimeoutException" /\ class = "RequestError"

\* mutant of UpstreamStatus: the RequestError clause comes before the
\* TimeoutException clause
UpstreamStatusRequestErrorFirst(r) ==
    IF IsInstance(r.kind, "WeatherstackError")
    THEN HttpExceptionFromWeatherstackError(r.code, r.type)
    ELSE IF IsInstance(r.kind, "RequestError") THEN 502
    ELSE IF IsInstance(r.kind, "TimeoutException") THEN 504
    ELSE 0

\* main.py:191-202  the except clauses in order; 0 when none matches
UpstreamStatus(r) ==
    IF IsInstance(r.kind, "WeatherstackError")
    THEN HttpExceptionFromWeatherstackError(r.code, r.type)
    ELSE IF IsInstance(r.kind, "TimeoutException") THEN 504
    ELSE IF IsInstance(r.kind, "RequestError") THEN 502
    ELSE 0

\* main.py:212-216  except ValueError; 0 when it does not match
MappingStatus(raised) == IF raised = "ValueError" THEN 502 ELSE 0

-----------------------------------------------------------------------------
(* Ghost record of the last operation. *)

NoArg == <<>>

OpWith(o, p, k, r, a) == [op |-> o, p |-> p, key |-> k, result |-> r, arg |-> a]

Op(o, p, k, r) == OpWith(o, p, k, r, NoArg)

NoOp == Op("none", 0, NoKey, None)

-----------------------------------------------------------------------------

\* what every start has in common: an empty cache, an empty heap, no request
\* under way
Fresh ==
    /\ data = {}
    /\ counter = 0
    /\ now = 0
    /\ recs = <<>>
    /\ lists = <<>>
    /\ lock = 0
    /\ city = [p \in Procs |-> NoKey]
    /\ value = [p \in Procs |-> None]
    /\ pc = [p \in Procs |-> "START"]
    /\ normalized = [p \in Procs |-> NoKey]
    /\ cached = [p \in Procs |-> None]
    /\ response = [p \in Procs |-> None]
    /\ status = [p \in Procs |-> 0]
    /\ last = NoOp
    /\ writes = <<>>

\* main.py:130-147  the application after startup: the cache is built with
\* max_size = _MAX_CACHE_SIZE and the configured TTL
Init ==
    /\ Fresh
    /\ max_size = MAX_CACHE_SIZE
    /\ ttl_seconds \in 0..MaxTTL
    /\ cache_enabled \in BOOLEAN

\* main.py:29-34  a cache built with any max_size >= 1 and any TTL, used on
\* its own
InitCache ==
    /\ Fresh
    /\ max_size \in 1..MaxMaxSize
    /\ ttl_seconds \in 0..MaxTTL
    /\ cache_enabled = TRUE

\* time passes
Tick ==
    /\ now < MaxTime
    /\ now' = now + 1
    /\ last' = Op("tick", 0, NoKey, None)
    /\ UNCHANGED <<lock, city, value>>
    /\ UNCHANGED <<data, counter, max_size, ttl_seconds, cache_enabled, recs, lists,
                   pc, normalized, cached, response, status, writes>>

\* a direct call of _TTLCache.get(key)
CallGet(k) ==
    /\ data' = GetData(data, k, now)
    /\ last' = Op("get", 0, k, GetResult(data, k, now))
    /\ UNCHANGED <<lock, city, value>>
    /\ UNCHANGED <<counter, max_size, ttl_seconds, cache_enabled, now, recs, lists,
                   pc, normalized, cached, response, status, writes>>

\* a direct call of _TTLCache.set(key, value) with a freshly built value
CallSet(k) ==
    /\ counter < MaxSets
    /\ lists' = Append(lists, <<>>)
    /\ recs' = Append(recs, Record(0, <<>>, Len(lists) + 1))
    /\ data' = SetData(data, counter, max_size, ttl_seconds, now, k, Len(recs) + 1)
    /\ counter' = counter + 1
    /\ writes' = Append(writes, k)
    /\ last' = Op("set", 0, k, Len(recs) + 1)
    /\ UNCHANGED <<lock, city, value>>
    /\ UNCHANGED <<max_size, ttl_seconds, cache_enabled, now,
                   pc, normalized, cached, response, status>>

NextCache ==
    \/ Tick
    \/ \E k \in CacheKeys : CallGet(k)
    \/ \E k \in CacheKeys : CallSet(k)

SpecCache == InitCache /\ [][NextCache]_vars

-----------------------------------------------------------------------------
(* get_weather, one action per stretch between awaits. *)

\* main.py:182  `if settings.cache_enabled:` before the lookup
LookupOrCall(enabled) == IF enabled THEN "CACHE_LOOKUP" ELSE "UPSTREAM_CALL"

\* mutant of WriteOrReturn: the response is stored whatever the setting
WriteAlways(enabled) == "CACHE_WRITE"

\* main.py:218  `if settings.cache_enabled:` before the write
WriteOrReturn(enabled) == IF enabled THEN "CACHE_WRITE" ELSE "DONE"

\* mutant of Mapped: a mapping failure does not stop the request
MappedWhenFetched(r, m) == r.kind = "payload"

\* main.py:189-216  both try blocks ran to their end
Mapped(r, m) == r.kind = "payload" /\ m.raised = "none"

\* mutant of CacheKey: the normalized city is the key, case kept
CacheKeyExact(p) == normalized[p]

\* main.py:180  cache_key = normalized.casefold()
CacheKey(p) == Casefold(normalized[p])

\* main.py:176-182  normalise the city, reject an empty one
Normalize(p, c) ==
    /\ pc[p] = "START"
    /\ p > 1 => pc[p - 1] # "START"      \* requests are numbered in order of arrival
    /\ city' = [city EXCEPT ![p] = c]
    /\ LET n == NormalizeCity(c)
       IN  IF n = <<>>
           THEN /\ pc' = [pc EXCEPT ![p] = "FAILED"]
                /\ status' = [status EXCEPT ![p] = 422]
                /\ UNCHANGED normalized
                /\ last' = OpWith("normalize", p, NoKey, 422, c)
           ELSE /\ normalized' = [normalized EXCEPT ![p] = n]
                /\ pc' = [pc EXCEPT ![p] = LookupOrCall(cache_enabled)]
                /\ UNCHANGED status
                /\ last' = OpWith("normalize", p, Casefold(n), None, c)
    /\ UNCHANGED <<lock, value>>
    /\ UNCHANGED <<data, counter, max_size, ttl_seconds, cache_enabled, now, recs, lists,
                   cached, response, writes>>

\* main.py:183-186  await cache.get(cache_key); a hit is returned as it is
CacheLookup(p) ==
    /\ pc[p] = "CACHE_LOOKUP"
    /\ LET r == GetResult(data, CacheKey(p), now)
       IN  /\ data' = GetData(data, CacheKey(p), now)
           /\ cached' = [cached EXCEPT ![p] = r]
           /\ last' = Op("get", p, CacheKey(p), r)
           /\ IF r # None
              THEN /\ response' = [response EXCEPT ![p] = r]
                   /\ status' = [status EXCEPT ![p] = 200]
                   /\ pc' = [pc EXCEPT ![p] = "DONE"]
              ELSE /\ pc' = [pc EXCEPT ![p] = "UPSTREAM_CALL"]
                   /\ UNCHANGED <<response, status>>
    /\ UNCHANGED <<lock, city, value>>
    /\ UNCHANGED <<counter, max_size, ttl_seconds, cache_enabled, now, recs, lists,
                   normalized, writes>>

\* main.py:188-218  the upstream call returns or raises, its failure is
\* translated, its payload mapped; an exception no except clause matches
\* leaves the handler (the framework answers 500)
UpstreamCall(p, o) ==
    /\ pc[p] = "UPSTREAM_CALL"
    /\ LET r == GetCurrent(o)
           m == MapPayload(o)
           st == IF r.kind # "payload" THEN UpstreamStatus(r)
                 ELSE IF m.raised # "none" THEN MappingStatus(m.raised)
                 ELSE IF cache_enabled THEN 0 ELSE 200
           mapped == Mapped(r, m)
       IN  /\ IF mapped
              THEN /\ lists' = Append(lists, m.descs)
                   /\ recs' = Append(recs, Record(m.temperature_c, m.wind_speed, Len(lists) + 1))
                   /\ response' = [response EXCEPT ![p] = Len(recs) + 1]
                   /\ pc' = [pc EXCEPT ![p] = WriteOrReturn(cache_enabled)]
                   /\ status' = [status EXCEPT ![p] = st]
              ELSE /\ UNCHANGED <<lists, recs, response>>
                   /\ pc' = [pc EXCEPT ![p] = IF st = 0 THEN "UNHANDLED" ELSE "FAILED"]
                   /\ status' = [status EXCEPT ![p] = IF st = 0 THEN 500 ELSE st]
           /\ last' = OpWith("upstream", p, CacheKey(p), st, o)
    /\ UNCHANGED <<lock, city, value>>
    /\ UNCHANGED <<data, counter, max_size, ttl_seconds, cache_enabled, now,
                   normalized, cached, writes>>

\* main.py:218-222  await cache.set(cache_key, response.model_copy()); return
CacheWrite(p) ==
    /\ pc[p] = "CACHE_WRITE"
    /\ recs' = Append(recs, ModelCopy(recs, response[p]))
    /\ data' = SetData(data, counter, max_size, ttl_seconds, now, CacheKey(p),
                       Len(recs) + 1)
    /\ counter' = counter + 1
    /\ writes' = Append(writes, CacheKey(p))
    /\ pc' = [pc EXCEPT ![p] = "DONE"]
    /\ status' = [status EXCEPT ![p] = 200]
    /\ last' = Op("set", p, CacheKey(p), Len(recs) + 1)
    /\ UNCHANGED <<lock, city, value>>
    /\ UNCHANGED <<max_size, ttl_seconds, cache_enabled, now, lists,
                   normalized, cached, response>>

\* the holder of a returned record assigns a field of it (the model class is
\* not frozen)
MutateField(p) ==
    /\ pc[p] = "DONE"
    /\ recs[response[p]].temperature_c < 100
    /\ recs' = [recs EXCEPT ![response[p]].temperature_c = @ + 100]
    /\ last' = OpWith("mutate", p, CacheKey(p), response[p], "field")
    /\ UNCHANGED <<lock, city, value>>
    /\ UNCHANGED <<data, counter, max_size, ttl_seconds, cache_enabled, now, lists,
                   pc, normalized, cached, response, status, writes>>

\* the holder of a returned record appends to its weather_descriptions list
MutateList(p) ==
    /\ pc[p] = "DONE"
    /\ \A i \in DOMAIN lists[recs[response[p]].weather_descriptions] :
            lists[recs[response[p]].weather_descriptions][i] # "mutated"
    /\ lists' = [lists EXCEPT ![recs[response[p]].weather_descriptions] =
                                    Append(@, "mutated")]
    /\ last' = OpWith("mutate", p, CacheKey(p), response[p], "list")
    /\ UNCHANGED <<lock, city, value>>
    /\ UNCHANGED <<data, counter, max_size, ttl_seconds, cache_enabled, now, recs,
                   pc, normalized, cached, response, status, writes>>

Next ==
    \/ Tick
    \/ \E p \in Procs : \E c \in CityInputs : Normalize(p, c)
    \/ \E p \in Procs : CacheLookup(p)
    \/ \E p \in Procs : \E o \in SharedOutcomes : UpstreamCall(p, o)
    \/ \E p \in Procs : CacheWrite(p)

\* NumProcs requests run concurrently against one cache
Spec == Init /\ [][Next]_vars

\* the same, with callers that mutate the records they were handed
NextAlias ==
    \/ Next
    \/ \E p \in Procs : MutateField(p)
    \/ \E p \in Procs : MutateList(p)

SpecAlias == Init /\ [][NextAlias]_vars

\* one request from start to end, over every outcome of the upstream call
NextRequest ==
    \/ \E c \in CityInputs : Normalize(1, c)
    \/ CacheLookup(1)
    \/ \E o \in UpstreamOutcomes : UpstreamCall(1, o)
    \/ CacheWrite(1)

SpecRequest == Init /\ [][NextRequest]_vars

-----------------------------------------------------------------------------
(* Properties of the cache, checked under SpecCache. *)

Keys(d) == {e.key : e \in d}

\* no entry written so far can have expired: time has not reached the TTL
NoExpiry == now < ttl_seconds

\* C1: the store never holds more than max_size entries (so neither
\* immediately after a set), and never two entries for one key.
CacheBound ==
    /\ Cardinality(data) <= max_size
    /\ \A e \in data : \A f \in data : e.key = f.key => e = f

\* a set that evicted has just left the store full, after time has advanced
\* and with a key written twice
WitnessCacheBound ==
    /\ last.op = "set"
    /\ max_size >= 2
    /\ Cardinality(data) = max_size
    /\ Len(writes) > max_size
    /\ now > 0
    /\ \E i \in 1..Len(writes) : \E j \in 1..Len(writes) : i # j /\ writes[i] = writes[j]

\* the entries a set on key k leaves besides the one it writes
KeptBySet(d, m, t, k) ==
    LET live == {e \in d : e.expires_at > t}
        full == Cardinality(live) >= m
    IN  {e \in live : /\ e.key # k
                      /\ ~(full /\ \A f \in live : e.seq <= f.seq)}

\* C2: a set first drops the expired entries; if max_size or more remain it
\* evicts exactly the one with the smallest sequence number, whatever its
\* expiry and whatever was read, and otherwise removes no live entry.  With
\* max_size = 2 and no expiry, set a, b, c leaves a absent and b, c present.
FifoEviction ==
    [][ /\ last'.op = "set" =>
            \E n \in data' :
                /\ n.key = last'.key
                /\ n.value = last'.result
                /\ data' \ {n} = KeptBySet(data, max_size, now, last'.key)
        /\ (max_size = 2 /\ writes' = << <<"a">>, <<"b">>, <<"c">> >> /\ NoExpiry') =>
                /\ GetResult(data', <<"a">>, now') = None
                /\ GetResult(data', <<"b">>, now') # None
                /\ GetResult(data', <<"c">>, now') # None
      ]_vars

WitnessFifoEviction ==
    /\ last.op = "set"
    /\ max_size = 2
    /\ writes = << <<"a">>, <<"b">>, <<"c">> >>
    /\ NoExpiry
    /\ Keys(data) = {<<"b">>, <<"c">>}

\* C3: right after a set, the entry of the key written carries a sequence
\* number larger than every other stored entry's, also when the key was
\* stored before.  With max_size = 2 and no expiry, set a, b, a, c evicts b:
\* a and c are returned, b is absent.
RenewalOnOverwrite ==
    /\ last.op = "set" =>
            \E n \in data :
                /\ n.key = last.key
                /\ n.seq = counter
                /\ \A f \in data \ {n} : f.seq < n.seq
    /\ (max_size = 2 /\ writes = << <<"a">>, <<"b">>, <<"a">>, <<"c">> >> /\ NoExpiry) =>
            /\ GetResult(data, <<"a">>, now) # None
            /\ GetResult(data, <<"c">>, now) # None
            /\ GetResult(data, <<"b">>, now) = None

WitnessRenewalOnOverwrite ==
    /\ last.op = "set"
    /\ max_size = 2
    /\ writes = << <<"a">>, <<"b">>, <<"a">>, <<"c">> >>
    /\ NoExpiry
    /\ Keys(data) = {<<"a">>, <<"c">>}

\* C4: get returns the stored value exactly when the key has an entry whose
\* expires_at is strictly after the time of the get, and absent otherwise; an
\* expired entry it finds is removed and nothing else is.  With ttl = 0 every
\* get is absent.  set's sweep uses the same boundary: no entry with
\* expires_at <= now survives a set.
ExpiryOnRead ==
    [][ /\ last'.op = "get" =>
            LET hit == {e \in data : e.key = last'.key /\ e.expires_at > now}
            IN  /\ hit = {} => last'.result = None
                /\ \A e \in hit : last'.result = e.value
                /\ data' = {e \in data : ~(e.key = last'.key /\ e.expires_at <= now)}
        /\ (last'.op = "get" /\ ttl_seconds = 0) => last'.result = None
        /\ last'.op = "set" =>
            \A e \in data : e.expires_at <= now => e \notin data'
      ]_vars

\* a get at the very instant of expiry found the only entry ever written and
\* removed it
WitnessExpiryOnRead ==
    /\ last.op = "get"
    /\ writes = <<last.key>>
    /\ last.result = None
    /\ data = {}
    /\ ttl_seconds > 0
    /\ now = ttl_seconds

-----------------------------------------------------------------------------
(* Properties of the records handed out, checked under SpecAlias. *)

\* what a get at time t returns for each key it finds, by value
Returned(d, rs, ls, t) ==
    {<<k, Content(rs, ls, GetResult(d, k, t))>> :
        k \in {x \in Keys(d) : GetResult(d, x, t) # None}}

\* C5: the record a cache hit hands to the caller is a copy: when that caller
\* mutates it, the content the cache holds (and a later get returns) stays as
\* it was.
CopyIsolationOnRead ==
    [][ (last'.op = "mutate" /\ cached[last'.p] # None) =>
            Returned(data', recs', lists', now') = Returned(data, recs, lists, now)
      ]_vars

\* C6: after a cache miss was written through, the record returned and the
\* record stored share nothing mutable: when the caller of the miss mutates
\* its record, a field or the weather_descriptions list, the content the
\* cache holds stays as it was.
NoAliasOnWriteThrough ==
    [][ (last'.op = "mutate" /\ cached[last'.p] = None) =>
            Returned(data', recs', lists', now') = Returned(data, recs, lists, now)
      ]_vars

-----------------------------------------------------------------------------
(* Properties of the error translation, checked under SpecRequest. *)

\* the translation table of the specification, in its order
ErrorRows ==
    << [code |-> 101, type |-> "unauthorized", status |-> 401],
       [code |-> 104, type |-> "usage_limit_reached", status |-> 429],
       [code |-> 429, type |-> "too_many_requests", status |-> 429],
       [code |-> 403, type |-> "forbidden", status |-> 403],
       [code |-> 601, type |-> "missing_query", status |-> 400] >>

PairMatches(row, code, type) == code = <<row.code>> /\ type = <<row.type>>

EitherMatches(row, code, type) == code = <<row.code>> \/ type = <<row.type>>

\* the status of the first of the rows `hits`, 502 when there is none
FirstStatus(hits) ==
    IF hits = {} THEN 502
    ELSE ErrorRows[CHOOSE i \in hits : \A j \in hits : i <= j].status

PairHits(code, type) ==
    {i \in DOMAIN ErrorRows : PairMatches(ErrorRows[i], code, type)}

EitherHits(code, type) ==
    {i \in DOMAIN ErrorRows : EitherMatches(ErrorRows[i], code, type)}

\* the upstream call of the last step raised a domain error
DomainErrorRaised ==
    /\ last.op = "upstream"
    /\ GetCurrent(last.arg).kind = "WeatherstackError"

\* C7 as stated: a domain error is translated by the first row whose (code,
\* type) pair is the error's code and type, 502 when there is none.
ErrorTranslationByPair ==
    DomainErrorRaised =>
        /\ pc[last.p] = "FAILED"
        /\ status[last.p] = FirstStatus(PairHits(GetCurrent(last.arg).code,
                                                GetCurrent(last.arg).type))

\* C7 as amended: a domain error is translated by the first row whose code is
\* the error's code or whose type is the error's type (either suffices), 502
\* when there is none.
ErrorTranslationByEither ==
    DomainErrorRaised =>
        /\ pc[last.p] = "FAILED"
        /\ status[last.p] = FirstStatus(EitherHits(GetCurrent(last.arg).code,
                                                GetCurrent(last.arg).type))

\* a domain error whose code is one row's and whose type is another's: the
\* earlier row decides
WitnessErrorTranslationByEither ==
    /\ DomainErrorRaised
    /\ last.arg.code = <<403>>
    /\ last.arg.type = <<"usage_limit_reached">>
    /\ pc[last.p] = "FAILED"
    /\ status[last.p] = 429

ClientStatuses == {400, 401, 403, 422, 429, 502, 504}

\* C8: whatever the upstream call and the mapping produce, a request ends in
\* DONE with 200 or in FAILED with one of 400, 401, 403, 422, 429, 502, 504;
\* no exception leaves the handler.
NoUnhandledFault ==
    \A p \in Procs :
        /\ pc[p] # "UNHANDLED"
        /\ pc[p] = "DONE" => status[p] = 200
        /\ pc[p] = "FAILED" => status[p] \in ClientStatuses

\* C9: a 4xx or 5xx answer of the upstream makes the request fail with 502.
UpstreamHttpErrorIs502 ==
    (last.op = "upstream" /\ last.arg.transport = "http_status_error") =>
        /\ pc[last.p] = "FAILED"
        /\ status[last.p] = 502

\* C10: a timeout of the upstream call ends the request with 504, any other
\* transport failure of the call with 502, never the other way round.
TimeoutVersusNetwork ==
    last.op = "upstream" =>
        /\ last.arg.transport = "timeout" =>
                pc[last.p] = "FAILED" /\ status[last.p] = 504
        /\ last.arg.transport = "network_error" =>
                pc[last.p] = "FAILED" /\ status[last.p] = 502

WitnessTimeoutVersusNetwork ==
    /\ last.op = "upstream"
    /\ last.arg.transport = "timeout"
    /\ pc[last.p] = "FAILED"
    /\ status[last.p] = 504

-----------------------------------------------------------------------------
(* Mapping of the upstream payload. *)

Parseable(t) == t.kind \in {"int", "int_string"}

\* C11: when the upstream envelope is well formed, a temperature that is
\* missing or not convertible to an integer makes the request fail with 502;
\* an integer or an integer-valued string makes it succeed with that integer,
\* and an absent or unparseable wind_speed becomes absent without failing.
MappingError ==
    (/\ last.op = "upstream"
     /\ GetCurrent(last.arg).kind = "payload"
     /\ last.arg.current = "object") =>
        LET o == last.arg
            p == last.p
        IN  IF Parseable(o.temperature)
            THEN /\ pc[p] \in {"CACHE_WRITE", "DONE"}
                 /\ recs[response[p]].temperature_c = o.temperature.val
                 /\ recs[response[p]].wind_speed =
                        IF Parseable(o.wind_speed) THEN <<o.wind_speed.val>> ELSE <<>>
            ELSE /\ pc[p] = "FAILED"
                 /\ status[p] = 502

-----------------------------------------------------------------------------
(* Cache keys. *)

LowerCase(ch) ==
    IF ch = "P" THEN "p" ELSE IF ch = "N" THEN "n" ELSE IF ch = "Y" THEN "y" ELSE ch

\* a city as its reader sees it: letters without their case, every inner run
\* of whitespace as one space, no whitespace at either end
RECURSIVE Canonical(_, _)
Canonical(c, i) ==
    IF i > Len(c) THEN <<>>
    ELSE IF c[i] \notin Whitespace THEN <<LowerCase(c[i])>> \o Canonical(c, i + 1)
    ELSE IF /\ i > 1
            /\ c[i - 1] \notin Whitespace
            /\ \E j \in (i + 1)..Len(c) : c[j] \notin Whitespace
         THEN <<" ">> \o Canonical(c, i + 1)
         ELSE Canonical(c, i + 1)

EquivalentCities(c1, c2) == Canonical(c1, 1) = Canonical(c2, 1)

\* the live entries a request for city c may use
LiveFor(c) ==
    {e \in data : \E c2 \in CityInputs :
        EquivalentCities(c, c2) /\ e.key = Canonical(c2, 1) /\ e.expires_at > now}

\* C12: cities that differ only in letter case or in surrounding or repeated
\* whitespace use one cache entry: a request stores its record under the
\* canonical form of its city, and a lookup for an equivalent city while that
\* entry is live is a hit that returns the stored record.
KeyEquivalence ==
    [][\A p \in Procs :
        /\ (last'.op = "set" /\ last'.p = p /\ pc[p] = "CACHE_WRITE") =>
                \E e \in data' : /\ e.key = Canonical(city[p], 1)
                                 /\ e.value = last'.result
                                 /\ \A f \in data' : f.key = e.key => f = e
        /\ (last'.op = "get" /\ last'.p = p /\ pc[p] = "CACHE_LOOKUP") =>
                \A e \in LiveFor(city[p]) :
                    /\ pc'[p] = "DONE"
                    /\ status'[p] = 200
                    /\ response'[p] = e.value
                    /\ e \in data']_vars

WitnessKeyEquivalence ==
    /\ last.op = "get"
    /\ last.p = 2
    /\ city[1] = <<"P">>
    /\ city[2] = <<" ", "p">>
    /\ pc[1] = "DONE"
    /\ pc[2] = "DONE"
    /\ cached[1] = None
    /\ cached[2] # None
    /\ response[2] = cached[2]
    /\ \E e \in data : e.key = <<"p">> /\ e.value = response[2]

-----------------------------------------------------------------------------
(* The lookup. *)

\* C13: a lookup that finds a live entry for the key ends the request in DONE
\* with that entry's record and 200; the step leaves the store, the sequence
\* counter and every record as they were, and the request takes no further
\* step: no upstream call, no mapping, no cache write.
CacheHitShortCircuit ==
    [][\A p \in Procs :
        /\ (last'.op = "get" /\ last'.p = p /\ pc[p] = "CACHE_LOOKUP") =>
                \A e \in data :
                    (e.key = last'.key /\ e.expires_at > now) =>
                        /\ pc'[p] = "DONE"
                        /\ status'[p] = 200
                        /\ response'[p] = e.value
                        /\ data' = data
                        /\ counter' = counter
                        /\ writes' = writes
                        /\ recs' = recs
                        /\ lists' = lists
        /\ (pc[p] = "DONE" /\ cached[p] # None) =>
                /\ pc'[p] = "DONE"
                /\ response'[p] = response[p]
                /\ last'.op \in {"upstream", "set"} => last'.p # p]_vars

WitnessCacheHitShortCircuit ==
    /\ last.op = "get"
    /\ last.p \in Procs
    /\ last.result # None
    /\ pc[last.p] = "DONE"
    /\ response[last.p] = last.result
    /\ counter = 1
    /\ Cardinality(data) = 1

-----------------------------------------------------------------------------
(* Validation. *)

Blank(c) == \A i \in 1..Len(c) : c[i] \in Whitespace

\* C14: a city that is empty once normalized fails the request with 422 in
\* its first step, before any lookup or upstream call: the step leaves the
\* cache as it was and the request takes no further step; any other city
\* passes on to the lookup or the upstream call.
BlankCityRejected ==
    [][\A p \in Procs :
        /\ (last'.op = "normalize" /\ last'.p = p /\ pc[p] = "START") =>
                IF Blank(last'.arg)
                THEN /\ pc'[p] = "FAILED"
                     /\ status'[p] = 422
                     /\ data' = data
                     /\ counter' = counter
                     /\ writes' = writes
                     /\ recs' = recs
                ELSE /\ pc'[p] \in {"CACHE_LOOKUP", "UPSTREAM_CALL"}
                     /\ status'[p] # 422
        /\ (pc[p] = "FAILED" /\ status[p] = 422) =>
                /\ pc'[p] = "FAILED"
                /\ status'[p] = 422
                /\ last'.op \in {"get", "upstream", "set"} => last'.p # p]_vars

WitnessBlankCityRejected ==
    /\ last.op = "normalize"
    /\ last.p = 2
    /\ Blank(city[2])
    /\ pc[2] = "FAILED"
    /\ status[2] = 422
    /\ cached[2] = None
    /\ data # {}

-----------------------------------------------------------------------------
(* The cache lock: main.py:34, 38 and 54.  Above, a get or a set is one     *)
(* step, because nothing awaits between the acquisition of _lock and its    *)
(* release.  Here the body of set is taken apart into its statements and    *)
(* the requests interleave at every one of them, so that mutual exclusion   *)
(* rests on the lock alone.  The clock stands still in this specification:  *)
(* with a TTL of 0 every entry is expired as soon as it is stored.          *)

\* mutant of LockFree: the lock is taken whoever holds it
LockIgnored(l) == TRUE

\* asyncio.Lock.acquire goes on only when nobody holds the lock
LockFree(l) == l = 0

\* mutant of Released: leaving the block keeps the lock
StillHeld(p) == p

\* the end of an `async with self._lock:` block
Released(p) == 0

\* the positions inside an `async with self._lock:` block
LockedPcs == {"GET_LOCKED", "SET_LOCKED", "SET_SWEPT", "SET_EVICTED"}

\* main.py:38  get enters the block
GetAcquire(p) ==
    /\ pc[p] = "CACHE_LOOKUP"
    /\ LockFree(lock)
    /\ lock' = p
    /\ pc' = [pc EXCEPT ![p] = "GET_LOCKED"]
    /\ last' = Op("acquire", p, CacheKey(p), None)
    /\ UNCHANGED <<data, counter, max_size, ttl_seconds, cache_enabled, now, recs, lists,
                   city, value, normalized, cached, response, status, writes>>

\* main.py:39-48 and 183-186  the body of get, and what get_weather does with
\* its result
GetBody(p) ==
    /\ pc[p] = "GET_LOCKED"
    /\ LET r == GetResult(data, CacheKey(p), now)
       IN  /\ data' = GetData(data, CacheKey(p), now)
           /\ cached' = [cached EXCEPT ![p] = r]
           /\ last' = Op("get", p, CacheKey(p), r)
           /\ IF r # None
              THEN /\ response' = [response EXCEPT ![p] = r]
                   /\ status' = [status EXCEPT ![p] = 200]
                   /\ pc' = [pc EXCEPT ![p] = "DONE"]
              ELSE /\ pc' = [pc EXCEPT ![p] = "UPSTREAM_CALL"]
                   /\ UNCHANGED <<response, status>>
    /\ lock' = Released(p)
    /\ UNCHANGED <<counter, max_size, ttl_seconds, cache_enabled, now, recs, lists,
                   city, value, normalized, writes>>

\* main.py:220 and 54  the copy is made, set enters the block
SetAcquire(p) ==
    /\ pc[p] = "CACHE_WRITE"
    /\ LockFree(lock)
    /\ lock' = p
    /\ recs' = Append(recs, ModelCopy(recs, response[p]))
    /\ value' = [value EXCEPT ![p] = Len(recs) + 1]
    /\ pc' = [pc EXCEPT ![p] = "SET_LOCKED"]
    /\ last' = Op("acquire", p, CacheKey(p), None)
    /\ UNCHANGED <<data, counter, max_size, ttl_seconds, cache_enabled, now, lists,
                   city, normalized, cached, response, status, writes>>

\* main.py:55-57
SetSweep(p) ==
    /\ pc[p] = "SET_LOCKED"
    /\ data' = Sweep(data, now)
    /\ pc' = [pc EXCEPT ![p] = "SET_SWEPT"]
    /\ last' = Op("sweep", p, CacheKey(p), None)
    /\ UNCHANGED <<counter, max_size, ttl_seconds, cache_enabled, now, recs, lists,
                   lock, city, value, normalized, cached, response, status, writes>>

\* main.py:60-62
SetEvict(p) ==
    /\ pc[p] = "SET_SWEPT"
    /\ data' = Evict(data, max_size)
    /\ pc' = [pc EXCEPT ![p] = "SET_EVICTED"]
    /\ last' = Op("evict", p, CacheKey(p), None)
    /\ UNCHANGED <<counter, max_size, ttl_seconds, cache_enabled, now, recs, lists,
                   lock, city, value, normalized, cached, response, status, writes>>

\* main.py:64-65 and 222  the entry is written, the block ends, get_weather
\* returns
SetInsert(p) ==
    /\ pc[p] = "SET_EVICTED"
    /\ data' = Store(data, CacheKey(p),
                     NewEntry(CacheKey(p), value[p], counter, ttl_seconds, now))
    /\ counter' = counter + 1
    /\ writes' = Append(writes, CacheKey(p))
    /\ lock' = Released(p)
    /\ pc' = [pc EXCEPT ![p] = "DONE"]
    /\ status' = [status EXCEPT ![p] = 200]
    /\ last' = Op("set", p, CacheKey(p), value[p])
    /\ UNCHANGED <<max_size, ttl_seconds, cache_enabled, now, recs, lists,
                   city, value, normalized, cached, response>>

\* the application with a cache small enough to fill
InitLock ==
    /\ Fresh
    /\ max_size \in 1..MaxMaxSize
    /\ ttl_seconds \in 0..MaxTTL
    /\ cache_enabled = TRUE

NextLock ==
    \/ \E p \in Procs : \E c \in CityInputs : Normalize(p, c)
    \/ \E p \in Procs : GetAcquire(p)
    \/ \E p \in Procs : GetBody(p)
    \/ \E p \in Procs : UpstreamCall(p, GoodOutcome)
    \/ \E p \in Procs : SetAcquire(p)
    \/ \E p \in Procs : SetSweep(p)
    \/ \E p \in Procs : SetEvict(p)
    \/ \E p \in Procs : SetInsert(p)

\* NumProcs requests whose cache operations interleave statement by statement
SpecLock == InitLock /\ [][NextLock]_vars

\* C15: every cache get and set takes effect as one indivisible step: at most
\* one request is inside a get or set at a time and it holds the lock, only
\* that request changes the store or the sequence counter, and whenever the
\* lock is free (the states another operation can observe) the store holds at
\* most max_size entries and one entry per key.
AtomicCacheOperations ==
    /\ [](/\ \A p, q \in Procs : (pc[p] \in LockedPcs /\ pc[q] \in LockedPcs) => p = q
          /\ \A p \in Procs : pc[p] \in LockedPcs => lock = p
          /\ lock = 0 => /\ Cardinality(data) <= max_size
                         /\ \A e, f \in data : e.key = f.key => e = f)
    /\ [][(data' # data \/ counter' # counter) =>
            /\ last'.p \in Procs
            /\ lock = last'.p
            /\ pc[last'.p] \in LockedPcs]_vars

WitnessAtomicCacheOperations ==
    /\ pc[1] = "SET_SWEPT"
    /\ lock = 1
    /\ pc[2] = "CACHE_WRITE"
    /\ CacheKey(1) # CacheKey(2)
    /\ max_size = 1

\* C16: a request that awaits the upstream call does not hold the cache lock:
\* the lock is held only inside a get or a set, so while one request waits,
\* the lookup of another request can start as soon as no get or set is under
\* way.
NoLockAcrossUpstream ==
    /\ lock # 0 => pc[lock] \in LockedPcs
    /\ \A p \in Procs :
        pc[p] = "UPSTREAM_CALL" =>
            /\ lock # p
            /\ \A q \in Procs :
                (pc[q] = "CACHE_LOOKUP" /\ \A r \in Procs : pc[r] \notin LockedPcs) =>
                    ENABLED GetAcquire(q)

WitnessNoLockAcrossUpstream ==
    /\ pc[1] = "UPSTREAM_CALL"
    /\ pc[2] = "DONE"
    /\ cached[2] = None
    /\ status[2] = 200
    /\ CacheKey(1) # CacheKey(2)
    /\ last.op = "set"
    /\ last.p = 2
    /\ lock = 0
    /\ \E e \in data : e.key = CacheKey(2)

-----------------------------------------------------------------------------
(* Concurrent requests for one city. *)

\* request q went through a miss, the upstream call and the cache write
Wrote(q) == cache_enabled /\ pc[q] = "DONE" /\ cached[q] = None /\ status[q] = 200

\* C17: two requests for the same city can both miss and both call the
\* upstream; when the later of their two sets has run, the store holds exactly
\* one entry for the key, the one that set wrote, and its sequence number is
\* larger than that of the earlier set.
NoSingleFlight ==
    \A p, q \in Procs :
        (/\ p # q
         /\ last.op = "set"
         /\ last.p = p
         /\ Wrote(p)
         /\ Wrote(q)
         /\ CacheKey(p) = CacheKey(q)) =>
            \E e \in data :
                /\ e.key = CacheKey(p)
                /\ e.value = last.result
                /\ \A f \in data : f.key = e.key => f = e
                /\ e.seq = Len(writes)
                /\ writes[e.seq] = e.key
                /\ \E i \in 1..(e.seq - 1) : writes[i] = e.key

WitnessNoSingleFlight ==
    /\ last.op = "set"
    /\ Wrote(1)
    /\ Wrote(2)
    /\ CacheKey(1) = CacheKey(2)
    /\ ttl_seconds = 1
    /\ now = 0
    /\ counter = 2
    /\ Cardinality(data) = 1

-----------------------------------------------------------------------------
(* The cache setting. *)

Ended == {"DONE", "FAILED", "UNHANDLED"}

\* C18: with the cache disabled no request looks the cache up or writes to it
\* and the store stays as it was; a request whose normalized city is not
\* empty goes from its first step straight to the upstream call, makes that
\* call once, and ends with it.
CacheDisabled ==
    [][~cache_enabled =>
        /\ data' = data
        /\ counter' = counter
        /\ writes' = writes
        /\ last'.op \notin {"get", "set"}
        /\ \A p \in Procs :
            /\ cached'[p] = None
            /\ (pc[p] = "START" /\ pc'[p] # "START" /\ ~Blank(city'[p])) =>
                    pc'[p] = "UPSTREAM_CALL"
            /\ (pc[p] = "UPSTREAM_CALL" /\ pc'[p] # "UPSTREAM_CALL") =>
                    /\ last'.op = "upstream"
                    /\ last'.p = p
                    /\ pc'[p] \in Ended
            /\ pc[p] \in Ended =>
                    /\ pc'[p] = pc[p]
                    /\ last'.op = "upstream" => last'.p # p]_vars

WitnessCacheDisabled ==
    /\ ~cache_enabled
    /\ last.op = "upstream"
    /\ last.p = 2
    /\ pc[1] = "DONE"
    /\ pc[2] = "DONE"
    /\ status[1] = 200
    /\ status[2] = 200
    /\ CacheKey(1) = CacheKey(2)
    /\ data = {}
    /\ counter = 0

-----------------------------------------------------------------------------
(* Failing requests. *)

\* one success and one outcome for every way the upstream call or the
\* mapping fails
FailingOutcomes ==
    { GoodOutcome,
      [GoodOutcome EXCEPT !.transport = "timeout"],
      [GoodOutcome EXCEPT !.transport = "network_error"],
      [GoodOutcome EXCEPT !.transport = "http_status_error"],
      [GoodOutcome EXCEPT !.success = "false", !.has_error = TRUE,
                          !.code = <<101>>, !.type = <<"unauthorized">>,
                          !.location = FALSE, !.current = "absent"],
      [GoodOutcome EXCEPT !.temperature = [kind |-> "bad_string", val |-> 0]] }

NextFailing ==
    \/ \E p \in Procs : \E c \in CityInputs : Normalize(p, c)
    \/ \E p \in Procs : CacheLookup(p)
    \/ \E p \in Procs : \E o \in FailingOutcomes : UpstreamCall(p, o)
    \/ \E p \in Procs : CacheWrite(p)

\* NumProcs requests over every kind of failure; the clock stands still, an
\* entry stored with a TTL of 0 is expired at once
SpecFailing == Init /\ [][NextFailing]_vars

\* an upstream outcome that cannot give a response
Failure(o) ==
    \/ o.transport # "response"
    \/ o.body # "object"
    \/ o.success = "false" /\ o.has_error
    \/ ~o.location
    \/ o.current # "object"
    \/ ~Parseable(o.temperature)

\* C19: a request that fails never calls set: a failing outcome ends the
\* request at the upstream step, a request that ended in failure stays there,
\* and a step other than a set leaves the counter alone and changes the store
\* at most by a lookup removing the expired entry of its own key.  So every
\* stored record was written by a request that ended with 200 and has an
\* integer temperature.
NoCacheWriteOnFailure ==
    /\ [](\A e \in data :
            /\ recs[e.value].temperature_c \in Int
            /\ \E p \in Procs : Wrote(p) /\ CacheKey(p) = e.key)
    /\ [][\A p \in Procs :
            /\ (last'.op = "upstream" /\ last'.p = p /\ Failure(last'.arg)) =>
                    pc'[p] \in {"FAILED", "UNHANDLED"}
            /\ pc[p] \in {"FAILED", "UNHANDLED"} =>
                    /\ pc'[p] = pc[p]
                    /\ last'.op = "set" => last'.p # p
            /\ (last'.p = p /\ last'.op # "set") =>
                    /\ counter' = counter
                    /\ writes' = writes
                    /\ data' \subseteq data
                    /\ \A e \in data \ data' :
                            /\ last'.op = "get"
                            /\ e.key = CacheKey(p)
                            /\ e.expires_at <= now
            /\ (last'.op = "set" /\ last'.p = p) =>
                    /\ pc[p] = "CACHE_WRITE"
                    /\ pc'[p] = "DONE"
                    /\ status'[p] = 200]_vars

WitnessNoCacheWriteOnFailure ==
    /\ Wrote(1)
    /\ pc[2] = "FAILED"
    /\ status[2] = 502
    /\ CacheKey(2) = CacheKey(1)
    /\ last.op = "upstream"
    /\ last.p = 2
    /\ last.arg.temperature.kind = "bad_string"
    /\ counter = 1
    /\ data = {}

-----------------------------------------------------------------------------
(* Overwriting a key. *)

Live(d, t) == {e \in d : e.expires_at > t}

\* C20: a set on a key that is stored and not expired removes no other
\* non-expired entry: every other live key is still returned by get after the
\* set, and the number of live entries is unchanged.
OverwriteKeepsOthers ==
    [][(/\ last'.op = "set"
        /\ \E e \in Live(data, now) : e.key = last'.key) =>
            /\ \A f \in Live(data, now) :
                    f.key # last'.key => GetResult(data', f.key, now') = f.value
            /\ Cardinality(Live(data', now')) = Cardinality(Live(data, now))]_vars

====
